---- MODULE Spec2Model ----
(***************************************************************************)
(* Model of the blockchain gateway of whitelist-backend                    *)
(* (services.BlockchainService) and of its purchase-event watch task.      *)
(*                                                                         *)
(* A Go pointer or optional value is a sequence: <<>> is nil, <<x>> is a   *)
(* non-nil pointer to x.  A Go error is the sequence of its messages,      *)
(* outermost wrapper first (fmt.Errorf("...: %w", err)); <<>> is nil.      *)
(* Every gateway operation is one action: the function runs to its return  *)
(* and the node's answers to the requests it issues are chosen by \E.      *)
(***************************************************************************)
EXTENDS Integers, Sequences, FiniteSets, TLC

VARIABLES
    contractAddress,  \* bs.contractAddress (sale contract)
    tokenAddress,     \* bs.tokenAddress
    privateKey,       \* bs.privateKey: Nil or <<key>>
    txCount,          \* node: transactions accepted so far; the next hash is txCount + 1
    last,             \* the most recent gateway call: op, input, requests, val, err
    watchPc,          \* position of the watch goroutine
    subscription,     \* the node subscription of the watch task
    ctxDone,          \* the context handed to WatchPurchaseEvents is cancelled
    held,             \* event the goroutine is sending on eventChan
    received,         \* logs the goroutine took from the logs channel
    eventChan,        \* events the consumer received from eventChan
    parsed,           \* outcome of the most recent parsePurchaseEvent call
    crashed,          \* the process died of an unrecovered panic
    response,         \* the most recent HTTP response: handler, input, status, body
    request,          \* the most recent HTTP request: route, Authorization, context keys
    ops,              \* concurrent whitelist additions: position, nonce, transaction, outcome
    chain             \* the node's view of the signing account: nonce, pool, receipts

vars == <<contractAddress, tokenAddress, privateKey, txCount, last,
          watchPc, subscription, ctxDone, held, received, eventChan,
          parsed, crashed, response, request, ops, chain>>

gatewayVars == <<contractAddress, tokenAddress, privateKey, txCount, last>>
watchVars == <<watchPc, subscription, ctxDone, held, received, eventChan,
               parsed, crashed>>
httpVars == <<response, request>>
submitVars == <<ops, chain>>

----------------------------------------------------------------------------
(* Bounds *)

\* number of whitelist additions in flight at the same time
MaxOps == 2

\* width of an address in bytes (go-ethereum: 20), scaled down
AddressLength == 2
\* longest address list handed to AddToWhitelist / RemoveFromWhitelist
MaxAddrs == 2
\* transactions the node accepts in one run
MaxTxs == 1
\* logs the node pushes to one subscription
MaxLogs == 2

----------------------------------------------------------------------------
(* Values *)

Nil == <<>>
NoErr == <<>>
Wrap(msg, err) == <<msg>> \o err

ZeroAddress == [i \in 1..AddressLength |-> 0]

RECURSIVE Repeat(_, _)
Repeat(x, n) == IF n <= 0 THEN <<>> ELSE <<x>> \o Repeat(x, n - 1)

LowerHex == <<"0","1","2","3","4","5","6","7","8","9","a","b","c","d","e","f">>
UpperHex == <<"0","1","2","3","4","5","6","7","8","9","A","B","C","D","E","F">>

IsHexChar(c) == \E i \in 1..16 : LowerHex[i] = c \/ UpperHex[i] = c
HexVal(c) == (CHOOSE i \in 1..16 : LowerHex[i] = c \/ UpperHex[i] = c) - 1

\* common.has0xPrefix
has0xPrefix(s) == Len(s) >= 2 /\ s[1] = "0" /\ (s[2] = "x" \/ s[2] = "X")

\* encoding/hex.DecodeString with the error dropped (common.Hex2Bytes):
\* the bytes decoded before the first invalid pair
RECURSIVE Hex2Bytes(_)
Hex2Bytes(s) ==
    IF Len(s) < 2 THEN <<>>
    ELSE IF ~IsHexChar(s[1]) \/ ~IsHexChar(s[2]) THEN <<>>
    ELSE <<16 * HexVal(s[1]) + HexVal(s[2])>> \o Hex2Bytes(SubSeq(s, 3, Len(s)))

\* common.FromHex
FromHex(s) ==
    LET s1 == IF has0xPrefix(s) THEN SubSeq(s, 3, Len(s)) ELSE s
        s2 == IF Len(s1) % 2 = 1 THEN <<"0">> \o s1 ELSE s1
    IN Hex2Bytes(s2)

\* common.BytesToAddress: crop from the left, pad on the left
BytesToAddress(b) ==
    LET c == IF Len(b) > AddressLength
             THEN SubSeq(b, Len(b) - AddressLength + 1, Len(b)) ELSE b
    IN Repeat(0, AddressLength - Len(c)) \o c

\* common.HexToAddress
HexToAddress(s) == BytesToAddress(FromHex(s))

----------------------------------------------------------------------------
(* Interface descriptors and the chain client *)

\* methods of WhitelistSaleABI
saleABI == {"saleConfig"}

\* methods of WhitelistTokenABI
tokenABI == {"balanceOf", "whitelist", "updateWhitelist", "updateWhitelistBatch"}

\* one request to the node: what was asked and what the node answered
Req(kind, to, method, params, resp, hash) ==
    [kind |-> kind, to |-> to, method |-> method, params |-> params,
     resp |-> resp, hash |-> hash]

\* answers of the node to a read call, and to the requests of a transaction
CallOutcomes == {"ok", "connection", "deadline", "execution"}
NetOutcomes == {"ok", "connection", "deadline"}
SendOutcomes == {"ok", "rejected"}
WaitOutcomes == {"mined_ok", "mined_reverted", "deadline"}

\* answers to the nonce request of Transact.  The transactor's Context is
\* never set, so the request runs under context.Background and the caller's
\* deadline cannot interrupt it: "ok_late" is an answer that arrives after
\* that deadline has passed.
NonceOutcomes == {"ok", "ok_late", "connection"}

\* the node's answers to the requests of one state-changing operation; a
\* request behind the first failed one is never issued ("unreached"), and
\* once the caller's deadline has passed the wait for inclusion can only
\* end with it
TxNodes ==
    { n \in [networkID : NetOutcomes \cup {"unreached"},
             gasPrice  : NetOutcomes \cup {"unreached"},
             nonce     : NonceOutcomes \cup {"unreached"},
             send      : SendOutcomes \cup {"unreached"},
             wait      : WaitOutcomes \cup {"unreached"}] :
        /\ n.networkID # "unreached"
        /\ (n.gasPrice = "unreached") <=> (n.networkID # "ok")
        /\ (n.nonce = "unreached") <=> (n.gasPrice \notin {"ok"})
        /\ (n.send = "unreached") <=> (n.nonce \notin {"ok", "ok_late"})
        /\ (n.wait = "unreached") <=> (n.send \notin {"ok"})
        /\ (n.nonce = "ok_late") => (n.wait \in {"deadline", "unreached"}) }

\* the node's answers to the reads of one operation, by method: all of
\* them succeed, or one of them fails
ReadNodes(methods) ==
    { n \in [methods -> CallOutcomes] :
        \A m1, m2 \in methods : (n[m1] # "ok" /\ n[m2] # "ok") => m1 = m2 }

\* values a successful read call decodes to
NodeResult(method) ==
    CASE method = "saleConfig"     -> <<1, 1, 10, 100, 0, 9, TRUE>>
      [] method = "totalSold"      -> <<5>>
      [] method = "totalEthRaised" -> <<5>>
      [] method = "isSaleActive"   -> <<TRUE>>
      [] method = "getPurchaseInfo" -> <<3, 3, 1, FALSE>>
      [] method = "totalPurchased" -> <<3>>
      [] method = "whitelist"      -> <<TRUE>>
      [] method = "balanceOf"      -> <<7>>
      [] OTHER                     -> <<>>

\* mutant: the method is not looked up in the descriptor
Call_NoPack(address, abi, method, params, outcome) ==
    IF outcome # "ok"
    THEN [requests |-> <<Req("CallContract", address, method, params, outcome, 0)>>,
          result |-> Nil, err |-> <<outcome>>]
    ELSE [requests |-> <<Req("CallContract", address, method, params, outcome, 0)>>,
          result |-> NodeResult(method), err |-> NoErr]

\* bind.BoundContract.Call: pack through the descriptor, then one eth_call
Call(address, abi, method, params, outcome) ==
    IF method \notin abi
    THEN [requests |-> <<>>, result |-> Nil, err |-> <<"method not found">>]
    ELSE IF outcome # "ok"
    THEN [requests |-> <<Req("CallContract", address, method, params, outcome, 0)>>,
          result |-> Nil, err |-> <<outcome>>]
    ELSE [requests |-> <<Req("CallContract", address, method, params, outcome, 0)>>,
          result |-> NodeResult(method), err |-> NoErr]

\* a signed transaction
Tx(hash, to, method, params) ==
    [hash |-> hash, to |-> to, method |-> method, params |-> params]

\* mutant: a rejected transaction is sent a second time
Transact_Resend(address, abi, method, params, node, hash) ==
    IF method \notin abi
    THEN [requests |-> <<>>, tx |-> Nil, err |-> <<"method not found">>]
    ELSE IF node.nonce \notin {"ok", "ok_late"}
    THEN [requests |-> <<Req("PendingNonceAt", Nil, "", <<>>, node.nonce, 0)>>,
          tx |-> Nil, err |-> <<node.nonce>>]
    ELSE IF node.send # "ok"
    THEN [requests |-> <<Req("PendingNonceAt", Nil, "", <<>>, node.nonce, 0),
                         Req("SendTransaction", address, method, params, node.send, hash),
                         Req("SendTransaction", address, method, params, node.send, hash)>>,
          tx |-> Nil, err |-> <<node.send>>]
    ELSE [requests |-> <<Req("PendingNonceAt", Nil, "", <<>>, node.nonce, 0),
                         Req("SendTransaction", address, method, params, node.send, hash)>>,
          tx |-> <<Tx(hash, address, method, params)>>, err |-> NoErr]

\* bind.BoundContract.Transact with gas price and gas limit preset: pack
\* through the descriptor, fetch the pending nonce, sign, send
Transact(address, abi, method, params, node, hash) ==
    IF method \notin abi
    THEN [requests |-> <<>>, tx |-> Nil, err |-> <<"method not found">>]
    ELSE IF node.nonce \notin {"ok", "ok_late"}
    THEN [requests |-> <<Req("PendingNonceAt", Nil, "", <<>>, node.nonce, 0)>>,
          tx |-> Nil, err |-> <<node.nonce>>]
    ELSE IF node.send # "ok"
    THEN [requests |-> <<Req("PendingNonceAt", Nil, "", <<>>, node.nonce, 0),
                         Req("SendTransaction", address, method, params, node.send, hash)>>,
          tx |-> Nil, err |-> <<node.send>>]
    ELSE [requests |-> <<Req("PendingNonceAt", Nil, "", <<>>, node.nonce, 0),
                         Req("SendTransaction", address, method, params, node.send, hash)>>,
          tx |-> <<Tx(hash, address, method, params)>>, err |-> NoErr]

\* the outcome of a gateway call
Ret(requests, val, err) == [requests |-> requests, val |-> val, err |-> err]

----------------------------------------------------------------------------
(* Gateway: helpers *)

callContract(method, outcome) ==
    Call(contractAddress, saleABI, method, <<>>, outcome)

callContractWithParams(method, params, outcome) ==
    Call(contractAddress, saleABI, method, params, outcome)

executeTransaction(method, params, node, hash) ==
    LET nid == <<Req("NetworkID", Nil, "", <<>>, node.networkID, 0)>>
        gas == <<Req("SuggestGasPrice", Nil, "", <<>>, node.gasPrice, 0)>>
    IN
    IF node.networkID # "ok"
    THEN Ret(nid, Nil, Wrap("failed to get chain ID", <<node.networkID>>))
    ELSE IF node.gasPrice # "ok"
    THEN Ret(nid \o gas, Nil, Wrap("failed to get gas price", <<node.gasPrice>>))
    ELSE LET t == Transact(contractAddress, saleABI, method, params, node, hash) IN
         IF t.err # NoErr
         THEN Ret(nid \o gas \o t.requests, Nil,
                  Wrap("failed to execute transaction", t.err))
         ELSE Ret(nid \o gas \o t.requests, t.tx, NoErr)

\* mutant: a reverted receipt is taken for success
executeTokenTransaction_IgnoreStatus(method, params, node, hash) ==
    LET nid == <<Req("NetworkID", Nil, "", <<>>, node.networkID, 0)>>
        gas == <<Req("SuggestGasPrice", Nil, "", <<>>, node.gasPrice, 0)>>
        wait == <<Req("TransactionReceipt", Nil, "", <<>>, node.wait, hash)>>
    IN
    IF node.networkID # "ok"
    THEN Ret(nid, Nil, Wrap("failed to get chain ID", <<node.networkID>>))
    ELSE IF node.gasPrice # "ok"
    THEN Ret(nid \o gas, Nil, Wrap("failed to get gas price", <<node.gasPrice>>))
    ELSE IF method \notin tokenABI
    THEN Ret(nid \o gas, Nil, <<"method not found in ABI">>)
    ELSE LET t == Transact(tokenAddress, tokenABI, method, params, node, hash) IN
         IF t.err # NoErr
         THEN Ret(nid \o gas \o t.requests, Nil,
                  Wrap("failed to execute transaction", t.err))
         ELSE IF node.wait \notin {"mined_ok", "mined_reverted"}
         THEN Ret(nid \o gas \o t.requests \o wait, t.tx, <<node.wait>>)
         ELSE Ret(nid \o gas \o t.requests \o wait, t.tx, NoErr)

\* mutant: returns once the transaction is sent, as executeTransaction does
executeTokenTransaction_NoWait(method, params, node, hash) ==
    LET nid == <<Req("NetworkID", Nil, "", <<>>, node.networkID, 0)>>
        gas == <<Req("SuggestGasPrice", Nil, "", <<>>, node.gasPrice, 0)>>
    IN
    IF node.networkID # "ok"
    THEN Ret(nid, Nil, Wrap("failed to get chain ID", <<node.networkID>>))
    ELSE IF node.gasPrice # "ok"
    THEN Ret(nid \o gas, Nil, Wrap("failed to get gas price", <<node.gasPrice>>))
    ELSE IF method \notin tokenABI
    THEN Ret(nid \o gas, Nil, <<"method not found in ABI">>)
    ELSE LET t == Transact(tokenAddress, tokenABI, method, params, node, hash) IN
         IF t.err # NoErr
         THEN Ret(nid \o gas \o t.requests, Nil,
                  Wrap("failed to execute transaction", t.err))
         ELSE Ret(nid \o gas \o t.requests, t.tx, NoErr)

executeTokenTransaction(method, params, node, hash) ==
    LET nid == <<Req("NetworkID", Nil, "", <<>>, node.networkID, 0)>>
        gas == <<Req("SuggestGasPrice", Nil, "", <<>>, node.gasPrice, 0)>>
        wait == <<Req("TransactionReceipt", Nil, "", <<>>, node.wait, hash)>>
    IN
    IF node.networkID # "ok"
    THEN Ret(nid, Nil, Wrap("failed to get chain ID", <<node.networkID>>))
    ELSE IF node.gasPrice # "ok"
    THEN Ret(nid \o gas, Nil, Wrap("failed to get gas price", <<node.gasPrice>>))
    ELSE IF method \notin tokenABI
    THEN Ret(nid \o gas, Nil, <<"method not found in ABI">>)
    ELSE LET t == Transact(tokenAddress, tokenABI, method, params, node, hash) IN
         IF t.err # NoErr
         THEN Ret(nid \o gas \o t.requests, Nil,
                  Wrap("failed to execute transaction", t.err))
         ELSE IF node.wait \notin {"mined_ok", "mined_reverted"}
         THEN Ret(nid \o gas \o t.requests \o wait, t.tx, <<node.wait>>)
         ELSE IF node.wait = "mined_reverted"
         THEN Ret(nid \o gas \o t.requests \o wait, t.tx, <<"transaction failed">>)
         ELSE Ret(nid \o gas \o t.requests \o wait, t.tx, NoErr)

----------------------------------------------------------------------------
(* Gateway: operations *)

\* length of a private key in hex characters (go-ethereum: 64), scaled down
KeyHexLength == 2

\* crypto.HexToECDSA: exactly KeyHexLength hex characters, and not zero
HexToECDSA(hex) ==
    IF Len(hex) # KeyHexLength \/ \E i \in 1..Len(hex) : ~IsHexChar(hex[i])
    THEN [key |-> Nil, err |-> <<"invalid hex data for private key">>]
    ELSE IF \A i \in 1..Len(hex) : HexVal(hex[i]) = 0
    THEN [key |-> Nil, err |-> <<"invalid private key, zero or negative">>]
    ELSE [key |-> <<Hex2Bytes(hex)>>, err |-> NoErr]

\* mutant: the empty string clears the stored key
SetPrivateKey_ClearOnEmpty(privateKeyHex) ==
    IF privateKeyHex = <<>>
    THEN [key |-> Nil, err |-> NoErr]
    ELSE LET k == HexToECDSA(privateKeyHex) IN
         IF k.err # NoErr
         THEN [key |-> privateKey, err |-> Wrap("failed to parse private key", k.err)]
         ELSE [key |-> k.key, err |-> NoErr]

\* the key stored and the error returned
SetPrivateKey(privateKeyHex) ==
    IF privateKeyHex = <<>>
    THEN [key |-> privateKey, err |-> NoErr]
    ELSE LET k == HexToECDSA(privateKeyHex) IN
         IF k.err # NoErr
         THEN [key |-> privateKey, err |-> Wrap("failed to parse private key", k.err)]
         ELSE [key |-> k.key, err |-> NoErr]

SaleInfoReads == {"saleConfig", "totalSold", "totalEthRaised", "isSaleActive"}
UserPurchaseReads == {"getPurchaseInfo", "totalPurchased"}

\* mutant: a failed configuration read yields a snapshot of defaults
GetSaleInfo_DefaultOnError(node) ==
    IF contractAddress = ZeroAddress
    THEN Ret(<<>>, Nil, <<"contract address not set">>)
    ELSE
    LET saleConfig == callContract("saleConfig", node["saleConfig"]) IN
    IF saleConfig.err # NoErr
    THEN Ret(saleConfig.requests,
             <<[TokenPrice |-> Nil, MinPurchase |-> Nil, MaxPurchase |-> Nil,
                MaxSupply |-> Nil, StartTime |-> 0, EndTime |-> 0,
                WhitelistRequired |-> FALSE, TotalSold |-> Nil,
                TotalEthRaised |-> Nil, IsActive |-> FALSE]>>,
             NoErr)
    ELSE Ret(saleConfig.requests, Nil, <<"failed to get total sold", "method not found">>)

\* mutant: a failed configuration read is followed by a second attempt
GetSaleInfo_ReadsOn(node) ==
    IF contractAddress = ZeroAddress
    THEN Ret(<<>>, Nil, <<"contract address not set">>)
    ELSE
    LET saleConfig == callContract("saleConfig", node["saleConfig"])
        again == callContract("saleConfig", node["saleConfig"]) IN
    IF saleConfig.err # NoErr
    THEN Ret(saleConfig.requests \o again.requests, Nil,
             Wrap("failed to get sale config", again.err))
    ELSE Ret(saleConfig.requests, Nil, <<"failed to get total sold", "method not found">>)

GetSaleInfo(node) ==
    IF contractAddress = ZeroAddress
    THEN Ret(<<>>, Nil, <<"contract address not set">>)
    ELSE
    LET saleConfig == callContract("saleConfig", node["saleConfig"]) IN
    IF saleConfig.err # NoErr
    THEN Ret(saleConfig.requests, Nil, Wrap("failed to get sale config", saleConfig.err))
    ELSE
    LET totalSold == callContract("totalSold", node["totalSold"])
        r2 == saleConfig.requests \o totalSold.requests IN
    IF totalSold.err # NoErr
    THEN Ret(r2, Nil, Wrap("failed to get total sold", totalSold.err))
    ELSE
    LET totalEthRaised == callContract("totalEthRaised", node["totalEthRaised"])
        r3 == r2 \o totalEthRaised.requests IN
    IF totalEthRaised.err # NoErr
    THEN Ret(r3, Nil, Wrap("failed to get total ETH raised", totalEthRaised.err))
    ELSE
    LET isSaleActive == callContract("isSaleActive", node["isSaleActive"])
        r4 == r3 \o isSaleActive.requests IN
    IF isSaleActive.err # NoErr
    THEN Ret(r4, Nil, Wrap("failed to get sale active status", isSaleActive.err))
    ELSE Ret(r4,
             <<[TokenPrice        |-> <<saleConfig.result[1]>>,
                MinPurchase       |-> <<saleConfig.result[2]>>,
                MaxPurchase       |-> <<saleConfig.result[3]>>,
                MaxSupply         |-> <<saleConfig.result[4]>>,
                StartTime         |-> saleConfig.result[5],
                EndTime           |-> saleConfig.result[6],
                WhitelistRequired |-> saleConfig.result[7],
                TotalSold         |-> <<totalSold.result[1]>>,
                TotalEthRaised    |-> <<totalEthRaised.result[1]>>,
                IsActive          |-> isSaleActive.result[1]]>>,
             NoErr)

GetUserPurchases(userAddress, node) ==
    IF contractAddress = ZeroAddress
    THEN Ret(<<>>, Nil, <<"contract address not set">>)
    ELSE
    LET address == HexToAddress(userAddress)
        purchaseInfo ==
            callContractWithParams("getPurchaseInfo", <<address>>, node["getPurchaseInfo"])
    IN
    IF purchaseInfo.err # NoErr
    THEN Ret(purchaseInfo.requests, Nil,
             Wrap("failed to get purchase info", purchaseInfo.err))
    ELSE
    LET totalPurchased ==
            callContractWithParams("totalPurchased", <<address>>, node["totalPurchased"])
        r2 == purchaseInfo.requests \o totalPurchased.requests
    IN
    IF totalPurchased.err # NoErr
    THEN Ret(r2, Nil, Wrap("failed to get total purchased", totalPurchased.err))
    ELSE Ret(r2,
             <<[Address        |-> userAddress,
                Amount         |-> <<purchaseInfo.result[1]>>,
                EthSpent       |-> <<purchaseInfo.result[2]>>,
                Timestamp      |-> purchaseInfo.result[3],
                Claimed        |-> purchaseInfo.result[4],
                TotalPurchased |-> <<totalPurchased.result[1]>>]>>,
             NoErr)

\* mutant: the token address is not checked
IsWhitelisted_NoAddressCheck(userAddress, outcome) ==
    LET address == HexToAddress(userAddress)
        c == Call(tokenAddress, tokenABI, "whitelist", <<address>>, outcome)
    IN
    IF c.err # NoErr
    THEN Ret(c.requests, <<FALSE>>, Wrap("failed to check whitelist status", c.err))
    ELSE Ret(c.requests, <<c.result[1]>>, NoErr)

IsWhitelisted(userAddress, outcome) ==
    IF tokenAddress = ZeroAddress
    THEN Ret(<<>>, <<FALSE>>, <<"token address not set">>)
    ELSE
    LET address == HexToAddress(userAddress)
        c == Call(tokenAddress, tokenABI, "whitelist", <<address>>, outcome)
    IN
    IF c.err # NoErr
    THEN Ret(c.requests, <<FALSE>>, Wrap("failed to check whitelist status", c.err))
    ELSE Ret(c.requests, <<c.result[1]>>, NoErr)

GetTokenBalance(address, outcome) ==
    IF tokenAddress = ZeroAddress
    THEN Ret(<<>>, Nil, <<"token address not set">>)
    ELSE
    LET addr == HexToAddress(address)
        c == Call(tokenAddress, tokenABI, "balanceOf", <<addr>>, outcome)
    IN
    IF c.err # NoErr
    THEN Ret(c.requests, Nil, Wrap("failed to get token balance", c.err))
    ELSE Ret(c.requests, <<c.result[1]>>, NoErr)

\* mutant: the signing key is not checked
AddToWhitelist_NoKeyCheck(addresses, node, hash) ==
    IF Len(addresses) = 1
    THEN executeTokenTransaction("updateWhitelist",
                                 <<HexToAddress(addresses[1]), TRUE>>, node, hash)
    ELSE LET addrs == [i \in 1..Len(addresses) |-> HexToAddress(addresses[i])] IN
         executeTokenTransaction("updateWhitelistBatch", <<addrs, TRUE>>, node, hash)

\* mutant: the batch is filled from the back
AddToWhitelist_Reversed(addresses, node, hash) ==
    IF privateKey = Nil
    THEN Ret(<<>>, Nil, <<"private key not set">>)
    ELSE IF Len(addresses) = 1
    THEN executeTokenTransaction("updateWhitelist",
                                 <<HexToAddress(addresses[1]), TRUE>>, node, hash)
    ELSE LET addrs == [i \in 1..Len(addresses) |->
                          HexToAddress(addresses[Len(addresses) + 1 - i])] IN
         executeTokenTransaction("updateWhitelistBatch", <<addrs, TRUE>>, node, hash)

\* mutant: an empty list is refused
AddToWhitelist_RejectEmpty(addresses, node, hash) ==
    IF privateKey = Nil
    THEN Ret(<<>>, Nil, <<"private key not set">>)
    ELSE IF Len(addresses) = 0
    THEN Ret(<<>>, Nil, <<"no addresses">>)
    ELSE IF Len(addresses) = 1
    THEN executeTokenTransaction("updateWhitelist",
                                 <<HexToAddress(addresses[1]), TRUE>>, node, hash)
    ELSE LET addrs == [i \in 1..Len(addresses) |-> HexToAddress(addresses[i])] IN
         executeTokenTransaction("updateWhitelistBatch", <<addrs, TRUE>>, node, hash)

AddToWhitelist(addresses, node, hash) ==
    IF privateKey = Nil
    THEN Ret(<<>>, Nil, <<"private key not set">>)
    ELSE IF Len(addresses) = 1
    THEN executeTokenTransaction("updateWhitelist",
                                 <<HexToAddress(addresses[1]), TRUE>>, node, hash)
    ELSE LET addrs == [i \in 1..Len(addresses) |-> HexToAddress(addresses[i])] IN
         executeTokenTransaction("updateWhitelistBatch", <<addrs, TRUE>>, node, hash)

\* mutant: a single address takes the batch path too
RemoveFromWhitelist_AlwaysBatch(addresses, node, hash) ==
    IF privateKey = Nil
    THEN Ret(<<>>, Nil, <<"private key not set">>)
    ELSE LET addrs == [i \in 1..Len(addresses) |-> HexToAddress(addresses[i])] IN
         executeTokenTransaction("updateWhitelistBatch", <<addrs, FALSE>>, node, hash)

RemoveFromWhitelist(addresses, node, hash) ==
    IF privateKey = Nil
    THEN Ret(<<>>, Nil, <<"private key not set">>)
    ELSE IF Len(addresses) = 1
    THEN executeTokenTransaction("updateWhitelist",
                                 <<HexToAddress(addresses[1]), FALSE>>, node, hash)
    ELSE LET addrs == [i \in 1..Len(addresses) |-> HexToAddress(addresses[i])] IN
         executeTokenTransaction("updateWhitelistBatch", <<addrs, FALSE>>, node, hash)

PauseSale(node, hash) ==
    IF privateKey = Nil
    THEN Ret(<<>>, Nil, <<"private key not set">>)
    ELSE executeTransaction("pause", <<>>, node, hash)

UnpauseSale(node, hash) ==
    IF privateKey = Nil
    THEN Ret(<<>>, Nil, <<"private key not set">>)
    ELSE executeTransaction("unpause", <<>>, node, hash)

----------------------------------------------------------------------------
(* Purchase-event decoding *)

\* width of one slot of a log payload, and of a topic, in bytes
SlotBytes == 32

\* a 32-byte big-endian word holding a small value
Slot(v) == Repeat(0, SlotBytes - 1) \o <<v>>

\* a topic holding an address, left-padded
Topic(addr) == Repeat(0, SlotBytes - Len(addr)) \o addr

\* big.Int.SetBytes: big-endian unsigned value
RECURSIVE SetBytes(_)
SetBytes(b) ==
    IF b = <<>> THEN 0
    ELSE 256 * SetBytes(SubSeq(b, 1, Len(b) - 1)) + b[Len(b)]

\* The decoder indexes Topics[1] and slices Data[0:32], Data[32:64],
\* Data[64:96] without a length check.  Go checks the index and the slice
\* bounds at run time and panics; the function has no error return path.
parsePurchaseEvent(vLog) ==
    IF Len(vLog.topics) < 2
    THEN [panic |-> TRUE, event |-> Nil, err |-> NoErr]
    ELSE IF Len(vLog.data) < SlotBytes
            \/ Len(vLog.data) < 2 * SlotBytes
            \/ Len(vLog.data) < 3 * SlotBytes
    THEN [panic |-> TRUE, event |-> Nil, err |-> NoErr]
    ELSE [panic |-> FALSE,
          event |-> <<[Buyer       |-> BytesToAddress(vLog.topics[2]),
                       TokenAmount |-> SetBytes(SubSeq(vLog.data, 1, SlotBytes)),
                       EthAmount   |-> SetBytes(SubSeq(vLog.data, SlotBytes + 1, 2 * SlotBytes)),
                       Timestamp   |-> SetBytes(SubSeq(vLog.data, 2 * SlotBytes + 1, 3 * SlotBytes)),
                       TxHash      |-> vLog.txHash,
                       BlockNumber |-> vLog.blockNumber]>>,
          err |-> NoErr]

----------------------------------------------------------------------------
(* Inputs *)

\* address strings: one in lower case, one in upper case, and one that is
\* not hexadecimal
AddrA == <<"0", "x">> \o Repeat("a", 2 * AddressLength)
AddrB == <<"0", "X">> \o Repeat("B", 2 * AddressLength)
AddrBad == <<"0", "x", "z", "z">>
AddrInputs == {AddrA, AddrB, AddrBad}

RECURSIVE SeqsUpTo(_, _)
SeqsUpTo(S, n) ==
    IF n = 0 THEN {<<>>}
    ELSE LET shorter == SeqsUpTo(S, n - 1) IN
         shorter \cup {Append(q, x) : q \in {t \in shorter : Len(t) = n - 1}, x \in S}

\* address lists: every order and repetition of the two addresses
AddrLists == SeqsUpTo({AddrA, AddrB}, MaxAddrs)

\* configured contract addresses: unset, or an address string
SaleAddr == <<"0", "x">> \o Repeat("c", 2 * AddressLength)
TokenAddr == <<"0", "x">> \o Repeat("d", 2 * AddressLength)

\* private key strings: none, a malformed one, a valid one
KeyInputs == {<<>>, <<"z">>, Repeat("1", KeyHexLength)}

\* logs the node can push: two well-formed ones, one whose payload is one
\* byte short, one with an empty payload, one without the buyer topic
EventSig == Slot(1)
FullData(k) == Slot(k) \o Slot(k + 1) \o Slot(k + 2)
WellFormedLog(k) ==
    [topics |-> <<EventSig, Topic(HexToAddress(AddrA))>>, data |-> FullData(k),
     txHash |-> k, blockNumber |-> k]
ShortDataLog ==
    [topics |-> <<EventSig, Topic(HexToAddress(AddrA))>>,
     data |-> SubSeq(FullData(7), 1, 3 * SlotBytes - 1),
     txHash |-> 7, blockNumber |-> 7]
EmptyDataLog ==
    [topics |-> <<EventSig, Topic(HexToAddress(AddrA))>>, data |-> <<>>,
     txHash |-> 8, blockNumber |-> 8]
NoBuyerTopicLog ==
    [topics |-> <<EventSig>>, data |-> FullData(9), txHash |-> 9, blockNumber |-> 9]
LogInputs == {WellFormedLog(1), WellFormedLog(2), ShortDataLog, EmptyDataLog,
              NoBuyerTopicLog}

----------------------------------------------------------------------------
(* Construction *)

\* the addresses NewBlockchainService stores for the configured strings
NewBlockchainService(contractAddr, tokenAddr) ==
    [contractAddress |-> IF contractAddr # <<>> THEN HexToAddress(contractAddr)
                         ELSE ZeroAddress,
     tokenAddress    |-> IF tokenAddr # <<>> THEN HexToAddress(tokenAddr)
                         ELSE ZeroAddress,
     privateKey      |-> Nil]

\* a whitelist addition that has not started
NewOp == [pc |-> "idle", pending |-> Nil, tx |-> Nil, err |-> NoErr, status |-> 0]

Init ==
    /\ \E contractAddr \in {<<>>, SaleAddr}, tokenAddr \in {<<>>, TokenAddr} :
          LET bs == NewBlockchainService(contractAddr, tokenAddr) IN
          /\ contractAddress = bs.contractAddress
          /\ tokenAddress = bs.tokenAddress
          /\ privateKey = bs.privateKey
    /\ txCount = 0
    /\ last = [op |-> "NewBlockchainService", input |-> <<>>,
               requests |-> <<Req("NetworkID", Nil, "", <<>>, "ok", 0)>>,
               val |-> Nil, err |-> NoErr]
    /\ watchPc = "idle"
    /\ subscription = [active |-> FALSE, unsubscribed |-> 0, err |-> FALSE]
    /\ ctxDone = FALSE
    /\ held = Nil
    /\ received = <<>>
    /\ eventChan = <<>>
    /\ parsed = Nil
    /\ crashed = FALSE
    /\ response = [handler |-> "", input |-> Nil, status |-> 0, error |-> "",
                   called |-> FALSE, data |-> Nil]
    /\ request = [route |-> "", authorization |-> <<>>, keys |-> <<>>]
    /\ ops = [i \in 1..MaxOps |-> NewOp]
    /\ chain = [nonce |-> 0, pool |-> {}, receipts |-> {}]

----------------------------------------------------------------------------
(* Gateway calls as actions *)

\* the number of transactions the node accepted from one call
Sent(requests) ==
    Len(SelectSeq(requests, LAMBDA q : q.kind = "SendTransaction" /\ q.resp = "ok"))

\* a call returns: its outcome is recorded, the node has what was sent
Return(op, input, r) ==
    /\ ~crashed
    /\ txCount + Sent(r.requests) <= MaxTxs
    /\ last' = [op |-> op, input |-> input, requests |-> r.requests,
                val |-> r.val, err |-> r.err]
    /\ txCount' = txCount + Sent(r.requests)

CallSetPrivateKey ==
    \E privateKeyHex \in KeyInputs :
        LET r == SetPrivateKey(privateKeyHex) IN
        /\ Return("SetPrivateKey", <<privateKeyHex>>, Ret(<<>>, Nil, r.err))
        /\ privateKey' = r.key
        /\ UNCHANGED <<contractAddress, tokenAddress>>
        /\ UNCHANGED watchVars
        /\ UNCHANGED httpVars
        /\ UNCHANGED submitVars

\* mutant: a second GetSaleInfo is answered from the previous one
CallGetSaleInfo_Cached ==
    \E node \in ReadNodes(SaleInfoReads) :
        /\ Return("GetSaleInfo", <<>>,
                  IF last.op = "GetSaleInfo" THEN Ret(<<>>, last.val, last.err)
                  ELSE GetSaleInfo(node))
        /\ UNCHANGED <<contractAddress, tokenAddress, privateKey>>
        /\ UNCHANGED watchVars
        /\ UNCHANGED httpVars
        /\ UNCHANGED submitVars

CallGetSaleInfo ==
    \E node \in ReadNodes(SaleInfoReads) :
        /\ Return("GetSaleInfo", <<>>, GetSaleInfo(node))
        /\ UNCHANGED <<contractAddress, tokenAddress, privateKey>>
        /\ UNCHANGED watchVars
        /\ UNCHANGED httpVars
        /\ UNCHANGED submitVars

CallGetUserPurchases ==
    \E userAddress \in AddrInputs, node \in ReadNodes(UserPurchaseReads) :
        /\ Return("GetUserPurchases", <<userAddress>>, GetUserPurchases(userAddress, node))
        /\ UNCHANGED <<contractAddress, tokenAddress, privateKey>>
        /\ UNCHANGED watchVars
        /\ UNCHANGED httpVars
        /\ UNCHANGED submitVars

CallIsWhitelisted ==
    \E userAddress \in AddrInputs, outcome \in CallOutcomes :
        /\ Return("IsWhitelisted", <<userAddress>>, IsWhitelisted(userAddress, outcome))
        /\ UNCHANGED <<contractAddress, tokenAddress, privateKey>>
        /\ UNCHANGED watchVars
        /\ UNCHANGED httpVars
        /\ UNCHANGED submitVars

CallGetTokenBalance ==
    \E address \in AddrInputs, outcome \in CallOutcomes :
        /\ Return("GetTokenBalance", <<address>>, GetTokenBalance(address, outcome))
        /\ UNCHANGED <<contractAddress, tokenAddress, privateKey>>
        /\ UNCHANGED watchVars
        /\ UNCHANGED httpVars
        /\ UNCHANGED submitVars

CallAddToWhitelist ==
    \E addresses \in AddrLists, node \in TxNodes :
        /\ Return("AddToWhitelist", addresses,
                  AddToWhitelist(addresses, node, txCount + 1))
        /\ UNCHANGED <<contractAddress, tokenAddress, privateKey>>
        /\ UNCHANGED watchVars
        /\ UNCHANGED httpVars
        /\ UNCHANGED submitVars

CallRemoveFromWhitelist ==
    \E addresses \in AddrLists, node \in TxNodes :
        /\ Return("RemoveFromWhitelist", addresses,
                  RemoveFromWhitelist(addresses, node, txCount + 1))
        /\ UNCHANGED <<contractAddress, tokenAddress, privateKey>>
        /\ UNCHANGED watchVars
        /\ UNCHANGED httpVars
        /\ UNCHANGED submitVars

CallPauseSale ==
    \E node \in TxNodes :
        /\ Return("PauseSale", <<>>, PauseSale(node, txCount + 1))
        /\ UNCHANGED <<contractAddress, tokenAddress, privateKey>>
        /\ UNCHANGED watchVars
        /\ UNCHANGED httpVars
        /\ UNCHANGED submitVars

CallUnpauseSale ==
    \E node \in TxNodes :
        /\ Return("UnpauseSale", <<>>, UnpauseSale(node, txCount + 1))
        /\ UNCHANGED <<contractAddress, tokenAddress, privateKey>>
        /\ UNCHANGED watchVars
        /\ UNCHANGED httpVars
        /\ UNCHANGED submitVars

----------------------------------------------------------------------------
(* Purchase-event subscription *)

\* the part of WatchPurchaseEvents that runs in the caller
WatchPurchaseEvents(outcome) ==
    IF contractAddress = ZeroAddress
    THEN Ret(<<>>, Nil, <<"contract address not set">>)
    ELSE IF outcome # "ok"
    THEN Ret(<<Req("SubscribeFilterLogs", contractAddress, "TokenPurchase", <<>>, outcome, 0)>>,
             Nil, Wrap("failed to subscribe to logs", <<outcome>>))
    ELSE Ret(<<Req("SubscribeFilterLogs", contractAddress, "TokenPurchase", <<>>, outcome, 0)>>,
             Nil, NoErr)

\* sub.Unsubscribe()
Unsubscribe(sub) ==
    [sub EXCEPT !.active = FALSE, !.unsubscribed = @ + 1]

\* the call: on success the goroutine starts at its select
CallWatchPurchaseEvents ==
    /\ watchPc = "idle"
    /\ \E outcome \in NetOutcomes :
        LET r == WatchPurchaseEvents(outcome) IN
        /\ Return("WatchPurchaseEvents", <<>>, r)
        /\ IF r.err = NoErr
           THEN /\ watchPc' = "select"
                /\ subscription' = [active |-> TRUE, unsubscribed |-> 0, err |-> FALSE]
           ELSE UNCHANGED <<watchPc, subscription>>
    /\ UNCHANGED <<contractAddress, tokenAddress, privateKey>>
    /\ UNCHANGED <<ctxDone, held, received, eventChan, parsed, crashed>>
    /\ UNCHANGED httpVars
    /\ UNCHANGED submitVars

\* case vLog := <-logs: decode; a panic unwinds through the deferred
\* Unsubscribe and, nothing recovering it, ends the process.  The client
\* subscription forwards no log once it has reported its error.
WatchLog ==
    /\ ~crashed
    /\ watchPc = "select"
    /\ subscription.active
    /\ ~subscription.err
    /\ Len(received) < MaxLogs
    /\ \E vLog \in LogInputs :
        LET p == parsePurchaseEvent(vLog) IN
        /\ received' = Append(received, vLog)
        /\ parsed' = <<[log |-> vLog, panic |-> p.panic, event |-> p.event,
                        err |-> p.err]>>
        /\ IF p.panic
           THEN /\ subscription' = Unsubscribe(subscription)
                /\ watchPc' = "panicked"
                /\ crashed' = TRUE
                /\ UNCHANGED held
           ELSE IF p.err # NoErr
           THEN UNCHANGED <<subscription, watchPc, crashed, held>>
           ELSE /\ held' = p.event
                /\ watchPc' = "send"
                /\ UNCHANGED <<subscription, crashed>>
    /\ UNCHANGED <<ctxDone, eventChan>>
    /\ UNCHANGED gatewayVars
    /\ UNCHANGED httpVars
    /\ UNCHANGED submitVars

\* mutant: a later event overtakes the ones already delivered
WatchSend_Overtaking ==
    /\ ~crashed
    /\ watchPc = "send"
    /\ eventChan' = <<held[1]>> \o eventChan
    /\ held' = Nil
    /\ watchPc' = "select"
    /\ UNCHANGED <<subscription, ctxDone, received, parsed, crashed>>
    /\ UNCHANGED gatewayVars
    /\ UNCHANGED httpVars
    /\ UNCHANGED submitVars

\* mutant: the event is sent twice
WatchSend_Twice ==
    /\ ~crashed
    /\ watchPc = "send"
    /\ eventChan' = eventChan \o <<held[1], held[1]>>
    /\ held' = Nil
    /\ watchPc' = "select"
    /\ UNCHANGED <<subscription, ctxDone, received, parsed, crashed>>
    /\ UNCHANGED gatewayVars
    /\ UNCHANGED httpVars
    /\ UNCHANGED submitVars

\* case eventChan <- *event: the consumer takes the event
WatchSend ==
    /\ ~crashed
    /\ watchPc = "send"
    /\ eventChan' = Append(eventChan, held[1])
    /\ held' = Nil
    /\ watchPc' = "select"
    /\ UNCHANGED <<subscription, ctxDone, received, parsed, crashed>>
    /\ UNCHANGED gatewayVars
    /\ UNCHANGED httpVars
    /\ UNCHANGED submitVars

\* mutant: an explicit Unsubscribe before the return, on top of the deferred one
WatchSendCtxDone_UnsubscribeTwice ==
    /\ ~crashed
    /\ watchPc = "send"
    /\ ctxDone
    /\ subscription' = Unsubscribe(Unsubscribe(subscription))
    /\ watchPc' = "done"
    /\ UNCHANGED <<ctxDone, held, received, eventChan, parsed, crashed>>
    /\ UNCHANGED gatewayVars
    /\ UNCHANGED httpVars
    /\ UNCHANGED submitVars

\* case <-ctx.Done() of the inner select: return, the event is dropped
WatchSendCtxDone ==
    /\ ~crashed
    /\ watchPc = "send"
    /\ ctxDone
    /\ subscription' = Unsubscribe(subscription)
    /\ watchPc' = "done"
    /\ UNCHANGED <<ctxDone, held, received, eventChan, parsed, crashed>>
    /\ UNCHANGED gatewayVars
    /\ UNCHANGED httpVars
    /\ UNCHANGED submitVars

\* case <-ctx.Done() of the outer select
WatchCtxDone ==
    /\ ~crashed
    /\ watchPc = "select"
    /\ ctxDone
    /\ subscription' = Unsubscribe(subscription)
    /\ watchPc' = "done"
    /\ UNCHANGED <<ctxDone, held, received, eventChan, parsed, crashed>>
    /\ UNCHANGED gatewayVars
    /\ UNCHANGED httpVars
    /\ UNCHANGED submitVars

\* mutant: the task tells the consumer that the stream has ended (the
\* consumer's next receive yields the end marker, as after close(eventChan))
WatchSubErr_SignalsEnd ==
    /\ ~crashed
    /\ watchPc = "select"
    /\ subscription.err
    /\ subscription' = Unsubscribe(subscription)
    /\ watchPc' = "done"
    /\ eventChan' = Append(eventChan, [closed |-> TRUE])
    /\ UNCHANGED <<ctxDone, held, received, parsed, crashed>>
    /\ UNCHANGED gatewayVars
    /\ UNCHANGED httpVars
    /\ UNCHANGED submitVars

\* case err := <-sub.Err()
WatchSubErr ==
    /\ ~crashed
    /\ watchPc = "select"
    /\ subscription.err
    /\ subscription' = Unsubscribe(subscription)
    /\ watchPc' = "done"
    /\ UNCHANGED <<ctxDone, held, received, eventChan, parsed, crashed>>
    /\ UNCHANGED gatewayVars
    /\ UNCHANGED httpVars
    /\ UNCHANGED submitVars

\* the caller cancels the context it passed
Cancel ==
    /\ ~crashed
    /\ watchPc # "idle"
    /\ ~ctxDone
    /\ ctxDone' = TRUE
    /\ UNCHANGED <<watchPc, subscription, held, received, eventChan, parsed, crashed>>
    /\ UNCHANGED gatewayVars
    /\ UNCHANGED httpVars
    /\ UNCHANGED submitVars

\* the node side of the subscription fails
SubscriptionError ==
    /\ ~crashed
    /\ subscription.active
    /\ ~subscription.err
    /\ subscription' = [subscription EXCEPT !.err = TRUE]
    /\ UNCHANGED <<watchPc, ctxDone, held, received, eventChan, parsed, crashed>>
    /\ UNCHANGED gatewayVars
    /\ UNCHANGED httpVars
    /\ UNCHANGED submitVars

----------------------------------------------------------------------------
(* HTTP handlers *)

\* length of the text of an address: "0x" and two characters per byte
\* (the handlers compare with 42)
AddressHexLength == 2 + 2 * AddressLength

StatusOK == 200
StatusBadRequest == 400
StatusInternalServerError == 500

\* the check the handlers make before they call the gateway
InvalidAddressFormat(address) ==
    Len(address) # AddressHexLength \/ SubSeq(address, 1, 2) # <<"0", "x">>

\* ShouldBindJSON into a struct whose address field is required: the body
\* is Nil (absent or not JSON) or <<address>>
ShouldBindJSON(body) ==
    IF body = Nil \/ body[1] = <<>>
    THEN [address |-> <<>>, err |-> <<"binding failed">>]
    ELSE [address |-> body[1], err |-> NoErr]

Respond(handler, input, status, error, called, data) ==
    [handler |-> handler, input |-> input, status |-> status, error |-> error,
     called |-> called, data |-> data]

\* address texts a client can send: well formed, empty, without the
\* prefix, one character short, one character long, with characters that
\* are not hexadecimal
HandlerAddrInputs ==
    { AddrA,
      <<>>,
      Repeat("a", AddressHexLength),
      <<"0", "x">> \o Repeat("a", 2 * AddressLength - 1),
      <<"0", "x">> \o Repeat("a", 2 * AddressLength + 1),
      <<"0", "x", "z", "z">> \o Repeat("a", 2 * AddressLength - 2) }

HandlerBodies == {Nil} \cup { <<a>> : a \in HandlerAddrInputs }

\* main: the configured key is installed before the router is set up; a key
\* that does not parse ends the process (logger.Fatalf)
ServerStart ==
    /\ last.op = "NewBlockchainService"
    /\ \E privateKeyHex \in KeyInputs :
          LET r == SetPrivateKey(privateKeyHex) IN
          /\ Return("SetPrivateKey", <<privateKeyHex>>, Ret(<<>>, Nil, r.err))
          /\ privateKey' = r.key
          /\ crashed' = (r.err # NoErr)
    /\ UNCHANGED <<contractAddress, tokenAddress>>
    /\ UNCHANGED <<watchPc, subscription, ctxDone, held, received, eventChan, parsed>>
    /\ UNCHANGED httpVars
    /\ UNCHANGED submitVars

\* the router serves requests once main has installed the key
Serving == last.op # "NewBlockchainService" /\ ~crashed

\* "Bearer " and "demo-admin-token", character by character (the
\* middleware compares the first 7 and the first 16 characters)
BearerPrefix == <<"B", "e", "a", "r", "e", "r", " ">>
DemoAdminToken ==
    <<"d", "e", "m", "o", "-", "a", "d", "m", "i", "n", "-", "t", "o", "k", "e", "n">>

StatusUnauthorized == 401
StatusForbidden == 403

\* what a middleware did: aborted the chain with a response, or set
\* context keys and passed on
Aborted(by, status, error, keys) ==
    [abort |-> TRUE, by |-> by, status |-> status, error |-> error, keys |-> keys]
Passed(keys) ==
    [abort |-> FALSE, by |-> "", status |-> 0, error |-> "", keys |-> keys]

\* mutant: any bearer token is accepted
AuthRequired_AnyToken(authHeader) ==
    IF authHeader = <<>>
    THEN Aborted("AuthRequired", StatusUnauthorized, "Authorization header required", <<>>)
    ELSE IF ~( /\ Len(authHeader) > Len(BearerPrefix)
               /\ SubSeq(authHeader, 1, Len(BearerPrefix)) = BearerPrefix )
    THEN Aborted("AuthRequired", StatusUnauthorized, "Invalid authorization format", <<>>)
    ELSE Passed([user_address |-> "0xf39fd6e51aad88f6f4ce6ab8827279cfffb92266",
                 user_role    |-> "admin"])

AuthRequired(authHeader) ==
    IF authHeader = <<>>
    THEN Aborted("AuthRequired", StatusUnauthorized, "Authorization header required", <<>>)
    ELSE IF ~( /\ Len(authHeader) > Len(BearerPrefix)
               /\ SubSeq(authHeader, 1, Len(BearerPrefix)) = BearerPrefix )
    THEN Aborted("AuthRequired", StatusUnauthorized, "Invalid authorization format", <<>>)
    ELSE LET tokenString == SubSeq(authHeader, Len(BearerPrefix) + 1, Len(authHeader)) IN
         IF /\ Len(tokenString) >= Len(DemoAdminToken)
            /\ SubSeq(tokenString, 1, Len(DemoAdminToken)) = DemoAdminToken
         THEN Passed([user_address |-> "0xf39fd6e51aad88f6f4ce6ab8827279cfffb92266",
                      user_role    |-> "admin"])
         ELSE Aborted("AuthRequired", StatusUnauthorized, "Invalid token", <<>>)

AdminRequired(keys) ==
    IF "user_role" \notin DOMAIN keys \/ keys["user_role"] # "admin"
    THEN Aborted("AdminRequired", StatusForbidden, "Admin access required", keys)
    ELSE Passed(keys)

\* the chain in front of the admin routes: AuthRequired, then AdminRequired
AdminChain(authHeader) ==
    LET auth == AuthRequired(authHeader) IN
    IF auth.abort THEN auth ELSE AdminRequired(auth.keys)

\* Authorization headers a client can send: none, the demo token, the demo
\* token with a suffix, the token without "Bearer ", "Bearer " alone,
\* another token, the demo token one character short
AuthHeaders ==
    { <<>>,
      BearerPrefix \o DemoAdminToken,
      BearerPrefix \o DemoAdminToken \o <<"-", "1">>,
      DemoAdminToken,
      BearerPrefix,
      BearerPrefix \o <<"d", "e", "m", "o", "-", "u", "s", "e", "r", "-", "t", "o",
                        "k", "e", "n", "-", "1">>,
      BearerPrefix \o SubSeq(DemoAdminToken, 1, Len(DemoAdminToken) - 1) }

Request(route, authHeader, keys) ==
    [route |-> route, authorization |-> authHeader, keys |-> keys]

\* the address GetSaleInfo asks the balance of (a literal in the handler)
TreasuryAddr == <<"0", "x">> \o Repeat("f", 2 * AddressLength)

HandleGetWhitelistStatus ==
    \E address \in HandlerAddrInputs :
        /\ Serving
        /\ request' = Request("GET /whitelist/status/:address", <<>>, <<>>)
        /\ IF InvalidAddressFormat(address)
           THEN /\ response' = Respond("GetWhitelistStatus", <<address>>, StatusBadRequest,
                                       "Invalid Ethereum address format", FALSE, Nil)
                /\ UNCHANGED <<txCount, last>>
           ELSE \E outcome \in CallOutcomes :
                LET r == IsWhitelisted(address, outcome) IN
                /\ Return("IsWhitelisted", <<address>>, r)
                /\ response' =
                      IF r.err # NoErr
                      THEN Respond("GetWhitelistStatus", <<address>>,
                                   StatusInternalServerError,
                                   "Failed to check whitelist status", TRUE, Nil)
                      ELSE Respond("GetWhitelistStatus", <<address>>, StatusOK, "", TRUE,
                                   <<[address |-> address, isWhitelisted |-> r.val[1]]>>)
        /\ UNCHANGED <<contractAddress, tokenAddress, privateKey>>
        /\ UNCHANGED watchVars
        /\ UNCHANGED submitVars

\* the balance read's error is logged; the answer is the same mock payload
HandleGetSaleInfo ==
    \E outcome \in CallOutcomes :
        LET r == GetTokenBalance(TreasuryAddr, outcome) IN
        /\ Serving
        /\ request' = Request("GET /sale/info", <<>>, <<>>)
        /\ Return("GetTokenBalance", <<TreasuryAddr>>, r)
        /\ response' = Respond("GetSaleInfo", Nil, StatusOK, "", TRUE,
                               <<[isActive |-> FALSE, totalSold |-> "0"]>>)
        /\ UNCHANGED <<contractAddress, tokenAddress, privateKey>>
        /\ UNCHANGED watchVars
        /\ UNCHANGED submitVars

\* mutant: the gateway's error is not looked at
HandleAddToWhitelist_IgnoresError ==
    \E authHeader \in AuthHeaders :
        LET mw == AdminChain(authHeader) IN
        /\ Serving
        /\ request' = Request("POST /admin/whitelist", authHeader, mw.keys)
        /\ IF mw.abort
           THEN /\ response' = Respond(mw.by, Nil, mw.status, mw.error, FALSE, Nil)
                /\ UNCHANGED <<txCount, last>>
           ELSE \E body \in HandlerBodies :
                LET req == ShouldBindJSON(body) IN
                IF req.err # NoErr
                THEN /\ response' = Respond("AddToWhitelist", body, StatusBadRequest,
                                            "Invalid request body", FALSE, Nil)
                     /\ UNCHANGED <<txCount, last>>
                ELSE IF InvalidAddressFormat(req.address)
                THEN /\ response' = Respond("AddToWhitelist", body, StatusBadRequest,
                                            "Invalid Ethereum address format", FALSE, Nil)
                     /\ UNCHANGED <<txCount, last>>
                ELSE \E node \in TxNodes :
                     LET r == AddToWhitelist(<<req.address>>, node, txCount + 1) IN
                     /\ Return("AddToWhitelist", <<req.address>>, r)
                     /\ response' = Respond("AddToWhitelist", body, StatusOK, "", TRUE,
                                            <<[address |-> req.address]>>)
        /\ UNCHANGED <<contractAddress, tokenAddress, privateKey>>
        /\ UNCHANGED watchVars
        /\ UNCHANGED submitVars

\* POST /admin/whitelist: the admin chain, then the handler
HandleAddToWhitelist ==
    \E authHeader \in AuthHeaders :
        LET mw == AdminChain(authHeader) IN
        /\ Serving
        /\ request' = Request("POST /admin/whitelist", authHeader, mw.keys)
        /\ IF mw.abort
           THEN /\ response' = Respond(mw.by, Nil, mw.status, mw.error, FALSE, Nil)
                /\ UNCHANGED <<txCount, last>>
           ELSE \E body \in HandlerBodies :
                LET req == ShouldBindJSON(body) IN
                IF req.err # NoErr
                THEN /\ response' = Respond("AddToWhitelist", body, StatusBadRequest,
                                            "Invalid request body", FALSE, Nil)
                     /\ UNCHANGED <<txCount, last>>
                ELSE IF InvalidAddressFormat(req.address)
                THEN /\ response' = Respond("AddToWhitelist", body, StatusBadRequest,
                                            "Invalid Ethereum address format", FALSE, Nil)
                     /\ UNCHANGED <<txCount, last>>
                ELSE \E node \in TxNodes :
                     LET r == AddToWhitelist(<<req.address>>, node, txCount + 1) IN
                     /\ Return("AddToWhitelist", <<req.address>>, r)
                     /\ response' =
                           IF r.err # NoErr
                           THEN Respond("AddToWhitelist", body, StatusInternalServerError,
                                        "Failed to add address to whitelist", TRUE, Nil)
                           ELSE Respond("AddToWhitelist", body, StatusOK, "", TRUE,
                                        <<[address |-> req.address]>>)
        /\ UNCHANGED <<contractAddress, tokenAddress, privateKey>>
        /\ UNCHANGED watchVars
        /\ UNCHANGED submitVars

\* DELETE /admin/whitelist: the admin chain, then the handler
HandleRemoveFromWhitelist ==
    \E authHeader \in AuthHeaders :
        LET mw == AdminChain(authHeader) IN
        /\ Serving
        /\ request' = Request("DELETE /admin/whitelist", authHeader, mw.keys)
        /\ IF mw.abort
           THEN /\ response' = Respond(mw.by, Nil, mw.status, mw.error, FALSE, Nil)
                /\ UNCHANGED <<txCount, last>>
           ELSE \E body \in HandlerBodies :
                LET req == ShouldBindJSON(body) IN
                IF req.err # NoErr
                THEN /\ response' = Respond("RemoveFromWhitelist", body, StatusBadRequest,
                                            "Invalid request body", FALSE, Nil)
                     /\ UNCHANGED <<txCount, last>>
                ELSE IF InvalidAddressFormat(req.address)
                THEN /\ response' = Respond("RemoveFromWhitelist", body, StatusBadRequest,
                                            "Invalid Ethereum address format", FALSE, Nil)
                     /\ UNCHANGED <<txCount, last>>
                ELSE \E node \in TxNodes :
                     LET r == RemoveFromWhitelist(<<req.address>>, node, txCount + 1) IN
                     /\ Return("RemoveFromWhitelist", <<req.address>>, r)
                     /\ response' =
                           IF r.err # NoErr
                           THEN Respond("RemoveFromWhitelist", body, StatusInternalServerError,
                                        "Failed to remove address from whitelist", TRUE, Nil)
                           ELSE Respond("RemoveFromWhitelist", body, StatusOK, "", TRUE,
                                        <<[address |-> req.address]>>)
        /\ UNCHANGED <<contractAddress, tokenAddress, privateKey>>
        /\ UNCHANGED watchVars
        /\ UNCHANGED submitVars

----------------------------------------------------------------------------
(* Whitelist additions in flight at the same time *)

\* Each operation is one accepted POST /admin/whitelist: the handler calls
\* AddToWhitelist, which runs executeTokenTransaction.  No lock is taken, so
\* the requests of several operations interleave freely.

\* the pending nonce of the signing account: its next nonce plus the
\* transactions with consecutive nonces waiting in the pool
PendingNonceAt ==
    CHOOSE n \in chain.nonce..(chain.nonce + MaxOps) :
        /\ \A k \in chain.nonce..(n - 1) : \E t \in chain.pool : t.nonce = k
        /\ ~\E t \in chain.pool : t.nonce = n

\* the operation returns and the handler answers: 500 on an error, else 200
OpReturn(i, tx, err) ==
    ops' = [ops EXCEPT ![i] = [@ EXCEPT !.pc = "done", !.tx = tx, !.err = err,
                                        !.status = IF err # NoErr
                                                   THEN StatusInternalServerError
                                                   ELSE StatusOK]]

\* key check, chain id, transactor, gas price
AddBegin ==
    \E i \in 1..MaxOps, outcome \in {"ok", "connection"} :
        /\ Serving
        /\ ops[i].pc = "idle"
        /\ IF privateKey = Nil
           THEN OpReturn(i, Nil, <<"private key not set">>)
           ELSE IF outcome # "ok"
           THEN OpReturn(i, Nil, Wrap("failed to get chain ID", <<outcome>>))
           ELSE ops' = [ops EXCEPT ![i].pc = "nonce"]
        /\ UNCHANGED chain
        /\ UNCHANGED <<gatewayVars, watchVars, httpVars>>

\* mutant: nonces are handed out by a sequencer inside the gateway
AddNonce_Sequenced ==
    \E i \in 1..MaxOps, outcome \in {"ok", "connection"} :
        LET handedOut == {ops[j].tx[1].nonce : j \in {k \in 1..MaxOps : ops[k].tx # Nil}}
            next == CHOOSE n \in 0..(2 * MaxOps) :
                        n >= PendingNonceAt /\ n \notin handedOut
        IN
        /\ Serving
        /\ ops[i].pc = "nonce"
        /\ IF outcome # "ok"
           THEN OpReturn(i, Nil, Wrap("failed to execute transaction", <<outcome>>))
           ELSE ops' = [ops EXCEPT ![i] = [@ EXCEPT !.pc = "send",
                                                  !.pending = <<PendingNonceAt>>,
                                                  !.tx = <<[hash |-> i, nonce |-> next]>>]]
        /\ UNCHANGED chain
        /\ UNCHANGED <<gatewayVars, watchVars, httpVars>>

\* Transact: the pending nonce is asked of the node and the transaction is
\* signed with it; a request the node does not answer ends the operation
AddNonce ==
    \E i \in 1..MaxOps, outcome \in {"ok", "connection"} :
        /\ Serving
        /\ ops[i].pc = "nonce"
        /\ IF outcome # "ok"
           THEN OpReturn(i, Nil, Wrap("failed to execute transaction", <<outcome>>))
           ELSE ops' = [ops EXCEPT ![i] = [@ EXCEPT !.pc = "send",
                                                  !.pending = <<PendingNonceAt>>,
                                                  !.tx = <<[hash |-> i,
                                                            nonce |-> PendingNonceAt]>>]]
        /\ UNCHANGED chain
        /\ UNCHANGED <<gatewayVars, watchVars, httpVars>>

\* Transact: the signed transaction is sent.  The node refuses a nonce
\* that is used up; for a nonce that a pooled transaction already has it
\* either refuses or replaces the pooled one; it may refuse for other
\* reasons.
AddSend ==
    \E i \in 1..MaxOps, resp \in SendOutcomes :
        LET tx == ops[i].tx[1]
            same == {t \in chain.pool : t.nonce = tx.nonce}
        IN
        /\ Serving
        /\ ops[i].pc = "send"
        /\ resp = "ok" => tx.nonce >= chain.nonce
        /\ IF resp = "ok"
           THEN /\ chain' = [chain EXCEPT !.pool = (@ \ same) \cup {tx}]
                /\ ops' = [ops EXCEPT ![i].pc = "wait"]
           ELSE /\ OpReturn(i, Nil, Wrap("failed to execute transaction", <<resp>>))
                /\ UNCHANGED chain
        /\ UNCHANGED <<gatewayVars, watchVars, httpVars>>

\* the node includes the pooled transaction that carries the account's
\* next nonce; its execution succeeds or reverts
NodeInclude ==
    \E t \in chain.pool, status \in {0, 1} :
        /\ t.nonce = chain.nonce
        /\ chain' = [nonce |-> chain.nonce + 1,
                     pool |-> chain.pool \ {t},
                     receipts |-> chain.receipts \cup
                                     {[hash |-> t.hash, nonce |-> t.nonce,
                                       status |-> status]}]
        /\ UNCHANGED ops
        /\ UNCHANGED <<gatewayVars, watchVars, httpVars>>

\* mutant: a failed wait returns no transaction
AddWait_DropsTx ==
    \E i \in 1..MaxOps, outcome \in WaitOutcomes :
        LET mine == {r \in chain.receipts : r.hash = ops[i].tx[1].hash} IN
        /\ Serving
        /\ ops[i].pc = "wait"
        /\ outcome # "deadline" =>
              \E r \in mine : r.status = (IF outcome = "mined_ok" THEN 1 ELSE 0)
        /\ IF outcome = "deadline"
           THEN OpReturn(i, Nil, <<outcome>>)
           ELSE IF outcome = "mined_reverted"
           THEN OpReturn(i, ops[i].tx, <<"transaction failed">>)
           ELSE OpReturn(i, ops[i].tx, NoErr)
        /\ UNCHANGED chain
        /\ UNCHANGED <<gatewayVars, watchVars, httpVars>>

\* WaitMined and the status check: the receipt is there, or the deadline
\* of the request passes first
AddWait ==
    \E i \in 1..MaxOps, outcome \in WaitOutcomes :
        LET mine == {r \in chain.receipts : r.hash = ops[i].tx[1].hash} IN
        /\ Serving
        /\ ops[i].pc = "wait"
        /\ outcome # "deadline" =>
              \E r \in mine : r.status = (IF outcome = "mined_ok" THEN 1 ELSE 0)
        /\ IF outcome = "deadline"
           THEN OpReturn(i, ops[i].tx, <<outcome>>)
           ELSE IF outcome = "mined_reverted"
           THEN OpReturn(i, ops[i].tx, <<"transaction failed">>)
           ELSE OpReturn(i, ops[i].tx, NoErr)
        /\ UNCHANGED chain
        /\ UNCHANGED <<gatewayVars, watchVars, httpVars>>

----------------------------------------------------------------------------
(* Specifications *)

\* the gateway's operations, called one after another
Next ==
    \/ CallSetPrivateKey
    \/ CallGetSaleInfo
    \/ CallGetUserPurchases
    \/ CallIsWhitelisted
    \/ CallGetTokenBalance
    \/ CallAddToWhitelist
    \/ CallRemoveFromWhitelist
    \/ CallPauseSale
    \/ CallUnpauseSale
    \/ CallWatchPurchaseEvents

Spec == Init /\ [][Next]_vars

\* one purchase-event subscription: the call, its goroutine, the node
\* pushing logs, the consumer and the caller's cancellation
WatchNext ==
    \/ CallWatchPurchaseEvents
    \/ WatchLog
    \/ WatchSend
    \/ WatchSendCtxDone
    \/ WatchCtxDone
    \/ WatchSubErr
    \/ Cancel
    \/ SubscriptionError

SpecWatch == Init /\ [][WatchNext]_vars

\* the same under the Go scheduler: a select case of the goroutine that is
\* ready again and again is taken.  Nothing obliges the node to push a
\* log, the consumer to receive, or the caller to cancel.
SpecWatchFair ==
    /\ Init
    /\ [][WatchNext]_vars
    /\ SF_vars(WatchCtxDone)
    /\ SF_vars(WatchSendCtxDone)
    /\ SF_vars(WatchSubErr)

\* the server: the signing key is installed at start-up, then requests
\* are handled one after another
HttpNext ==
    \/ ServerStart
    \/ HandleGetWhitelistStatus
    \/ HandleGetSaleInfo
    \/ HandleAddToWhitelist
    \/ HandleRemoveFromWhitelist

SpecHttp == Init /\ [][HttpNext]_vars

\* the server with several whitelist additions in flight and the node
\* including transactions
SubmitNext ==
    \/ ServerStart
    \/ AddBegin
    \/ AddNonce
    \/ AddSend
    \/ NodeInclude
    \/ AddWait

SpecSubmit == Init /\ [][SubmitNext]_vars

----------------------------------------------------------------------------
(* Properties of the gateway operations *)

StateChanging == {"AddToWhitelist", "RemoveFromWhitelist", "PauseSale", "UnpauseSale"}

\* the requests of the most recent call that have the given kind
LastRequests(kind) == SelectSeq(last.requests, LAMBDA q : q.kind = kind)

\* the kinds of the requests of the most recent call, in the order issued
LastKinds == [i \in 1..Len(last.requests) |-> last.requests[i].kind]

\* C1: without a signing key every state-changing operation returns an
\* error without issuing any request, and the node never receives a
\* transaction.
C1_ReadOnlyNeverSubmits ==
    privateKey = Nil =>
        /\ txCount = 0
        /\ last.op \in StateChanging =>
              /\ last.err # NoErr
              /\ last.val = Nil
              /\ last.requests = <<>>

C1_Witness ==
    /\ privateKey = Nil
    /\ last.op \in {"AddToWhitelist", "RemoveFromWhitelist"}
    /\ Len(last.input) = 1
    /\ last.err = <<"private key not set">>

\* C2: a state-changing operation whose transaction was included with a
\* failure receipt returns the error "transaction failed" together with
\* the transaction it sent (same hash); it does not return success.
C2_RevertedCarriesHash ==
    \A i \in 1..Len(last.requests) :
        ( /\ last.op \in StateChanging
          /\ last.requests[i].kind = "TransactionReceipt"
          /\ last.requests[i].resp = "mined_reverted" )
        => /\ last.err = <<"transaction failed">>
           /\ last.val # Nil
           /\ last.val[1].hash = last.requests[i].hash
           /\ \E j \in 1..(i - 1) :
                 /\ last.requests[j].kind = "SendTransaction"
                 /\ last.requests[j].resp = "ok"
                 /\ last.requests[j].hash = last.val[1].hash
           /\ last.val[1].hash = txCount

C2_Witness ==
    /\ last.op = "RemoveFromWhitelist"
    /\ LastRequests("TransactionReceipt") # <<>>
    /\ LastRequests("TransactionReceipt")[1].resp = "mined_reverted"
    /\ last.err = <<"transaction failed">>

\* C3: a state-changing operation that returns success has asked for the
\* chain id, then the gas price, then sent the transaction, then waited
\* for its receipt, and that receipt reported success.
C3_SuccessAfterReceipt ==
    (last.op \in StateChanging /\ last.err = NoErr) =>
        /\ LastKinds = <<"NetworkID", "SuggestGasPrice", "PendingNonceAt",
                         "SendTransaction", "TransactionReceipt">>
        /\ \A i \in 1..4 : last.requests[i].resp = "ok"
        /\ last.requests[5].resp = "mined_ok"
        /\ last.requests[5].hash = last.requests[4].hash
        /\ last.val # Nil

C3_Witness ==
    /\ last.op = "AddToWhitelist"
    /\ last.err = NoErr
    /\ txCount > 0
    /\ last.val # Nil
    /\ last.val[1].hash = txCount

\* C4: GetSaleInfo and GetUserPurchases return either an error and a nil
\* result, or no error and a result built from all of their reads, each
\* of them answered; a failed read never yields a result.
C4_AllOrNothingReads ==
    last.op \in {"GetSaleInfo", "GetUserPurchases"} =>
        /\ (\E i \in 1..Len(last.requests) : last.requests[i].resp # "ok")
              => (last.err # NoErr /\ last.val = Nil)
        /\ last.err # NoErr => last.val = Nil
        /\ last.err = NoErr =>
              /\ last.val # Nil
              /\ Len(last.requests) = IF last.op = "GetSaleInfo" THEN 4 ELSE 2
              /\ \A i \in 1..Len(last.requests) :
                    /\ last.requests[i].kind = "CallContract"
                    /\ last.requests[i].resp = "ok"

C4_Witness ==
    /\ last.op = "GetSaleInfo"
    /\ Len(last.requests) = 1
    /\ last.requests[1].method = "saleConfig"
    /\ last.requests[1].resp = "deadline"
    /\ last.val = Nil
    /\ last.err = <<"failed to get sale config", "deadline">>

\* C7: a read operation whose contract address is unset returns an error
\* and issues no request, so no call or subscription is addressed to the
\* zero address.
C7_ReadsFailFastUnconfigured ==
    /\ ( /\ contractAddress = ZeroAddress
         /\ last.op \in {"GetSaleInfo", "GetUserPurchases", "WatchPurchaseEvents"} )
       => (last.err # NoErr /\ last.requests = <<>> /\ watchPc = "idle")
    /\ ( /\ tokenAddress = ZeroAddress
         /\ last.op \in {"IsWhitelisted", "GetTokenBalance"} )
       => (last.err # NoErr /\ last.requests = <<>>)
    /\ last.op \in {"GetSaleInfo", "GetUserPurchases", "WatchPurchaseEvents",
                    "IsWhitelisted", "GetTokenBalance"}
       => \A i \in 1..Len(last.requests) : last.requests[i].to # ZeroAddress

C7_Witness ==
    /\ tokenAddress = ZeroAddress
    /\ contractAddress # ZeroAddress
    /\ last.op = "IsWhitelisted"
    /\ last.err = <<"token address not set">>

\* C8: with a signing key set, a state-changing operation whose contract
\* address is unset returns an error without sending a transaction.
C8_WritesFailFastUnconfigured ==
    /\ ( /\ privateKey # Nil
         /\ tokenAddress = ZeroAddress
         /\ last.op \in {"AddToWhitelist", "RemoveFromWhitelist"} )
       => (last.err # NoErr /\ LastRequests("SendTransaction") = <<>>)
    /\ ( /\ privateKey # Nil
         /\ contractAddress = ZeroAddress
         /\ last.op \in {"PauseSale", "UnpauseSale"} )
       => (last.err # NoErr /\ LastRequests("SendTransaction") = <<>>)

\* C9: the transaction AddToWhitelist sends is updateWhitelist(address,
\* true) for one address, and for more than one updateWhitelistBatch(list,
\* true) whose list has the length of the input and holds the converted
\* i-th input at position i.
C9_AddSingleOrBatchInOrder ==
    last.op = "AddToWhitelist" =>
        \A k \in 1..Len(last.requests) :
            last.requests[k].kind = "SendTransaction" =>
                IF Len(last.input) = 1
                THEN /\ last.requests[k].method = "updateWhitelist"
                     /\ last.requests[k].params = <<HexToAddress(last.input[1]), TRUE>>
                ELSE Len(last.input) > 1 =>
                     /\ last.requests[k].method = "updateWhitelistBatch"
                     /\ Len(last.requests[k].params) = 2
                     /\ last.requests[k].params[2] = TRUE
                     /\ Len(last.requests[k].params[1]) = Len(last.input)
                     /\ \A i \in 1..Len(last.input) :
                           last.requests[k].params[1][i] = HexToAddress(last.input[i])

C9_Witness ==
    /\ last.op = "AddToWhitelist"
    /\ Len(last.input) = 2
    /\ HexToAddress(last.input[1]) # HexToAddress(last.input[2])
    /\ LastRequests("SendTransaction") # <<>>
    /\ LastRequests("SendTransaction")[1].method = "updateWhitelistBatch"

\* the requests with the status flag of every transaction set to true
WithStatusTrue(requests) ==
    [i \in 1..Len(requests) |->
        IF requests[i].kind = "SendTransaction"
        THEN [requests[i] EXCEPT !.params = <<requests[i].params[1], TRUE>>]
        ELSE requests[i]]

\* C10: what RemoveFromWhitelist asks of the node for an address list is
\* what AddToWhitelist asks for the same list under the same answers of
\* the node, except that the status flag it sends is false.
C10_RemoveSymmetricToAdd ==
    last.op = "RemoveFromWhitelist" =>
        /\ \A k \in 1..Len(last.requests) :
              last.requests[k].kind = "SendTransaction"
                 => last.requests[k].params[2] = FALSE
        /\ \E node \in TxNodes, hash \in 1..(MaxTxs + 1) :
              LET add == AddToWhitelist(last.input, node, hash) IN
              /\ add.requests = WithStatusTrue(last.requests)
              /\ add.err = last.err
              /\ (add.val = Nil) <=> (last.val = Nil)

C10_Witness ==
    /\ last.op = "RemoveFromWhitelist"
    /\ Len(last.input) = 1
    /\ LastRequests("SendTransaction") # <<>>
    /\ LastRequests("SendTransaction")[1].params = <<HexToAddress(last.input[1]), FALSE>>

----------------------------------------------------------------------------
(* Properties of the purchase-event subscription *)

\* a log the decoder cannot decode
Malformed(vLog) == Len(vLog.data) < 3 * SlotBytes \/ Len(vLog.topics) < 2

\* C5: a log that cannot be decoded does not end the stream: after the
\* watch task has received one it has not died of it.
C5_MalformedLogSkipped ==
    (\E i \in 1..Len(received) : Malformed(received[i]))
        => (watchPc # "panicked" /\ ~crashed)

\* C6: decoding a log whose payload is shorter than three slots, or that
\* has fewer than two topics, returns an error and no event.
C6_MalformedLogRejected ==
    (parsed # Nil /\ Malformed(parsed[1].log))
        => /\ ~parsed[1].panic
           /\ parsed[1].err # NoErr
           /\ parsed[1].event = Nil

\* the watch goroutine has returned or died
Terminated == watchPc \in {"done", "panicked"}

\* C11: once the caller's context is cancelled or the subscription has
\* reported an error, the watch task eventually unsubscribes and
\* terminates, whether or not the consumer receives.
C11_TaskReleasesOnEveryPath ==
    ((ctxDone \/ subscription.err) /\ watchPc # "idle")
        ~> (Terminated /\ subscription.unsubscribed >= 1)

\* C12: Unsubscribe is never called twice for one WatchPurchaseEvents
\* call, it has been called once exactly when the task has terminated, and
\* after a cancellation it eventually has been called once.
C12_UnsubscribeExactlyOnce ==
    /\ [](subscription.unsubscribed <= 1)
    /\ [](Terminated <=> subscription.unsubscribed = 1)
    /\ [](subscription.unsubscribed = 1 => ~subscription.active)
    /\ (ctxDone ~> (Terminated /\ subscription.unsubscribed = 1))

C12_Witness ==
    /\ ctxDone
    /\ watchPc = "done"
    /\ held # Nil
    /\ subscription.err
    /\ subscription.unsubscribed = 1

\* the events of the logs that decode, in the order of the logs
RECURSIVE Decoded(_)
Decoded(logs) ==
    IF logs = <<>> THEN <<>>
    ELSE LET p == parsePurchaseEvent(Head(logs)) IN
         (IF p.panic \/ p.err # NoErr THEN <<>> ELSE p.event) \o Decoded(Tail(logs))

\* a is b with some elements left out
RECURSIVE IsSubsequence(_, _)
IsSubsequence(a, b) ==
    IF a = <<>> THEN TRUE
    ELSE IF b = <<>> THEN FALSE
    ELSE IF Head(a) = Head(b) THEN IsSubsequence(Tail(a), Tail(b))
    ELSE IsSubsequence(a, Tail(b))

\* C13: the events the consumer received are, in this order, events of
\* logs in the order the watch task received them.
C13_DeliveryKeepsLogOrder ==
    IsSubsequence(eventChan, Decoded(received))

C13_Witness ==
    /\ Len(eventChan) = 2
    /\ eventChan[1].TxHash # eventChan[2].TxHash
    /\ eventChan[1].TxHash = received[1].txHash
    /\ eventChan[2].TxHash = received[2].txHash

\* C14: the consumer has received one event for each received log that
\* decodes, none twice; the only one that can be missing is the event of
\* the last log, while it waits to be sent or after the context was
\* cancelled before the consumer took it.
C14_EachLogForwardedOnce ==
    LET decoded == Decoded(received) IN
    /\ Len(eventChan) <= Len(decoded)
    /\ \/ eventChan = decoded
       \/ /\ decoded # <<>>
          /\ eventChan = SubSeq(decoded, 1, Len(decoded) - 1)
          /\ held = <<decoded[Len(decoded)]>>
          /\ \/ watchPc = "send"
             \/ watchPc = "done" /\ ctxDone

C14_Witness ==
    /\ Len(received) = 2
    /\ received[1] = received[2]
    /\ Len(eventChan) = 2
    /\ watchPc = "select"

----------------------------------------------------------------------------
(* Properties of the interface descriptors, retries and deadlines *)

\* the most recent call got past its configuration checks
Started ==
    CASE last.op \in {"GetSaleInfo", "GetUserPurchases"} -> contractAddress # ZeroAddress
      [] last.op \in {"IsWhitelisted", "GetTokenBalance"} -> tokenAddress # ZeroAddress
      [] last.op \in StateChanging -> privateKey # Nil
      [] OTHER -> FALSE

\* every request of the most recent call was answered without a failure
AllAnswered ==
    \A i \in 1..Len(last.requests) :
        last.requests[i].resp \in {"ok", "ok_late", "mined_ok"}

\* the methods of the read calls of the most recent call, in the order issued
LastReadMethods ==
    [i \in 1..Len(LastRequests("CallContract")) |-> LastRequests("CallContract")[i].method]

\* C15: with the sale address configured and every read answered,
\* GetSaleInfo issues exactly the four reads saleConfig, totalSold,
\* totalEthRaised, isSaleActive and returns a snapshot without an error.
C15_SaleInfoFourReads ==
    (last.op = "GetSaleInfo" /\ contractAddress # ZeroAddress /\ AllAnswered) =>
        /\ LastReadMethods = <<"saleConfig", "totalSold", "totalEthRaised", "isSaleActive">>
        /\ Len(last.requests) = 4
        /\ last.err = NoErr
        /\ last.val # Nil

\* C16: with a signing key and the sale address configured and every
\* request answered, PauseSale and UnpauseSale issue no read call and send
\* exactly one transaction, method pause respectively unpause, without
\* arguments, to the sale contract.
C16_PauseSubmitsOneTransaction ==
    ( /\ last.op \in {"PauseSale", "UnpauseSale"}
      /\ privateKey # Nil
      /\ contractAddress # ZeroAddress
      /\ AllAnswered )
    => /\ LastRequests("CallContract") = <<>>
       /\ Len(LastRequests("SendTransaction")) = 1
       /\ LastRequests("SendTransaction")[1].method =
             (IF last.op = "PauseSale" THEN "pause" ELSE "unpause")
       /\ LastRequests("SendTransaction")[1].params = <<>>
       /\ LastRequests("SendTransaction")[1].to = contractAddress

\* the descriptor of the contract an operation addresses
TargetABI(op) ==
    IF op \in {"GetSaleInfo", "GetUserPurchases", "PauseSale", "UnpauseSale"}
    THEN saleABI ELSE tokenABI

\* the methods an operation asks its descriptor for when nothing fails before
RequestedMethods(op) ==
    CASE op = "GetSaleInfo"      -> SaleInfoReads
      [] op = "GetUserPurchases" -> UserPurchaseReads
      [] op = "PauseSale"        -> {"pause"}
      [] op = "UnpauseSale"      -> {"unpause"}
      [] op = "IsWhitelisted"    -> {"whitelist"}
      [] op = "GetTokenBalance"  -> {"balanceOf"}
      [] op \in {"AddToWhitelist", "RemoveFromWhitelist"} ->
            {IF Len(last.input) = 1 THEN "updateWhitelist" ELSE "updateWhitelistBatch"}
      [] OTHER                   -> {}

\* the error of the most recent call is, at its root, a method the
\* descriptor does not have
UnknownMethod ==
    /\ last.err # NoErr
    /\ last.err[Len(last.err)] \in {"method not found", "method not found in ABI"}

\* C17: no read call and no transaction carries a method that is absent
\* from the descriptor of the contract addressed, and an operation that
\* needs such a method and has all its requests answered returns an
\* unknown-method error and no result.
C17_UnknownMethodNeverSent ==
    /\ \A i \in 1..Len(last.requests) :
          last.requests[i].kind \in {"CallContract", "SendTransaction"}
             => last.requests[i].method \in TargetABI(last.op)
    /\ ( /\ Started
         /\ AllAnswered
         /\ RequestedMethods(last.op) \ TargetABI(last.op) # {} )
       => (UnknownMethod /\ last.val = Nil)
    /\ UnknownMethod => RequestedMethods(last.op) \ TargetABI(last.op) # {}

C17_Witness ==
    /\ last.op = "PauseSale"
    /\ LastKinds = <<"NetworkID", "SuggestGasPrice">>
    /\ AllAnswered
    /\ last.err = <<"failed to execute transaction", "method not found">>

\* C18: one call sends at most one transaction and issues no request
\* twice, and a request that failed is the last request of the call.
C18_NoRetries ==
    /\ Len(LastRequests("SendTransaction")) <= 1
    /\ \A i, j \in 1..Len(last.requests) :
          ( /\ i # j
            /\ last.requests[i].kind = last.requests[j].kind )
          => last.requests[i].method # last.requests[j].method
    /\ \A i \in 1..Len(last.requests) :
          last.requests[i].resp \notin {"ok", "ok_late", "mined_ok"}
             => i = Len(last.requests)

C18_Witness ==
    /\ last.op \in StateChanging
    /\ Len(LastRequests("SendTransaction")) = 1
    /\ LastRequests("SendTransaction")[1].resp = "rejected"
    /\ last.err = <<"failed to execute transaction", "rejected">>

\* C19: a call during which the caller's deadline passed, whichever request
\* was outstanding, returns an error whose root is the deadline, and no
\* other call returns that error.
C19_DeadlineIsDistinctOutcome ==
    (\E i \in 1..Len(last.requests) :
        last.requests[i].resp \in {"deadline", "ok_late"})
    <=> (last.err # NoErr /\ last.err[Len(last.err)] = "deadline")

----------------------------------------------------------------------------
(* Properties of the address boundary *)

\* "0x" followed by two hexadecimal characters per address byte
WellFormedAddress(s) ==
    /\ Len(s) = AddressHexLength
    /\ s[1] = "0"
    /\ s[2] = "x"
    /\ \A i \in 3..Len(s) : IsHexChar(s[i])

\* C20: a request whose address is not "0x" followed by the full number of
\* hexadecimal characters is answered 400 without a gateway call, and the
\* gateway sends no call or transaction built from such an address.
C20_OnlyWellFormedAddresses ==
    /\ ( /\ response.handler \in {"GetWhitelistStatus", "AddToWhitelist",
                                   "RemoveFromWhitelist"}
         /\ \/ response.input = Nil
            \/ ~WellFormedAddress(response.input[1]) )
       => (response.status = StatusBadRequest /\ ~response.called)
    /\ ( /\ last.op \in {"IsWhitelisted", "AddToWhitelist", "RemoveFromWhitelist"}
         /\ \E k \in 1..Len(last.input) : ~WellFormedAddress(last.input[k]) )
       => /\ LastRequests("CallContract") = <<>>
          /\ LastRequests("SendTransaction") = <<>>

----------------------------------------------------------------------------
(* Properties of the gateway's own state *)

\* C24: a gateway call other than SetPrivateKey leaves the sale address,
\* the token address and the signing key as they were, and a GetSaleInfo
\* that follows a GetSaleInfo, with the sale address configured, sends its
\* own first read to the node instead of reusing the earlier outcome.
C24_NoStateDerivedFromChain ==
    [][ /\ last'.op # "SetPrivateKey"
           => UNCHANGED <<contractAddress, tokenAddress, privateKey>>
        /\ ( /\ last.op = "GetSaleInfo"
             /\ last'.op = "GetSaleInfo"
             /\ contractAddress # ZeroAddress )
           => /\ last'.requests # <<>>
              /\ last'.requests[1].kind = "CallContract"
              /\ last'.requests[1].method = "saleConfig"
              /\ last'.requests[1].to = contractAddress ]_vars

C24_Witness ==
    /\ last.op = "GetSaleInfo"
    /\ contractAddress # ZeroAddress
    /\ privateKey # Nil
    /\ Len(last.requests) = 1
    /\ last.requests[1].method = "saleConfig"
    /\ last.requests[1].resp = "ok"

\* C27: with a signing key set, AddToWhitelist and RemoveFromWhitelist
\* given an empty list issue the requests of a transaction like any other
\* call, and the transaction they send is updateWhitelistBatch with an
\* empty address list and the status to set.
C27_EmptyListTakesBatchPath ==
    ( /\ last.op \in {"AddToWhitelist", "RemoveFromWhitelist"}
      /\ last.input = <<>>
      /\ privateKey # Nil )
    => /\ last.requests # <<>>
       /\ last.requests[1].kind = "NetworkID"
       /\ (\A i \in 1..3 : i <= Len(last.requests) /\ last.requests[i].resp \in {"ok", "ok_late"})
             => /\ Len(LastRequests("SendTransaction")) = 1
                /\ LastRequests("SendTransaction")[1].method = "updateWhitelistBatch"
                /\ LastRequests("SendTransaction")[1].params =
                      <<<<>>, last.op = "AddToWhitelist">>
                /\ LastRequests("SendTransaction")[1].to = tokenAddress

C27_Witness ==
    /\ last.op = "RemoveFromWhitelist"
    /\ last.input = <<>>
    /\ last.err = NoErr
    /\ last.val # Nil
    /\ last.val[1].method = "updateWhitelistBatch"
    /\ last.val[1].params = <<<<>>, FALSE>>

\* C28: SetPrivateKey never removes a key.  A stored key stays stored
\* through every call; a call with an unparsable string returns an error,
\* a call with the empty string returns none, and both leave the key as it
\* was.
C28_KeyIsNeverRemoved ==
    [][ /\ privateKey # Nil => privateKey' # Nil
        /\ last'.op = "SetPrivateKey" =>
              LET hex == last'.input[1] IN
              /\ (hex = <<>>) => (last'.err = NoErr /\ privateKey' = privateKey)
              /\ (hex # <<>> /\ HexToECDSA(hex).err # NoErr)
                    => (last'.err # NoErr /\ privateKey' = privateKey)
              /\ last'.err # NoErr => privateKey' = privateKey ]_vars

C28_Witness ==
    /\ privateKey # Nil
    /\ last.op = "SetPrivateKey"
    /\ last.input = <<<<"z">>>>
    /\ last.err # NoErr

\* C30: the read calls of GetSaleInfo are a prefix of saleConfig, totalSold,
\* totalEthRaised, isSaleActive, it issues no other request, and a read
\* that failed is its last request.
C30_SaleInfoReadsInOrder ==
    last.op = "GetSaleInfo" =>
        /\ Len(LastReadMethods) = Len(last.requests)
        /\ Len(LastReadMethods) <= 4
        /\ LastReadMethods =
              SubSeq(<<"saleConfig", "totalSold", "totalEthRaised", "isSaleActive">>,
                     1, Len(LastReadMethods))
        /\ \A i \in 1..Len(last.requests) :
              last.requests[i].resp # "ok" =>
                  /\ i = Len(last.requests)
                  /\ last.err # NoErr
                  /\ last.val = Nil

C30_Witness ==
    /\ last.op = "GetSaleInfo"
    /\ LastReadMethods = <<"saleConfig">>
    /\ last.requests[1].resp = "connection"
    /\ last.err = <<"failed to get sale config", "connection">>

----------------------------------------------------------------------------
(* Properties of the end of the event stream *)

\* C29: everything the consumer receives from the event channel is the
\* event of a log the task took, never an end-of-stream or error value, and
\* a step that ends the task, or any step after its end, gives the consumer
\* nothing: a consumer waiting on the channel then waits forever.
C29_EndOfStreamNeverSignalled ==
    /\ [](\A i \in 1..Len(eventChan) :
             \E j \in 1..Len(Decoded(received)) : eventChan[i] = Decoded(received)[j])
    /\ [][watchPc' = "done" => eventChan' = eventChan]_vars
    /\ [](watchPc = "done" => [](watchPc = "done"))

C29_Witness ==
    /\ watchPc = "done"
    /\ subscription.err
    /\ ~ctxDone
    /\ held = Nil
    /\ Len(eventChan) = 1

----------------------------------------------------------------------------
(* Properties of the HTTP handlers *)

\* C21: when the gateway call a handler made returned an error, the
\* response is an error response (status 500, no data), never a success.
C21_GatewayErrorsReachTheClient ==
    ( /\ response.handler \in {"GetWhitelistStatus", "GetSaleInfo", "AddToWhitelist",
                               "RemoveFromWhitelist"}
      /\ response.called
      /\ last.err # NoErr )
    => /\ response.status = StatusInternalServerError
       /\ response.error # ""
       /\ response.data = Nil

\* the header is "Bearer " followed by a token that begins with the demo
\* admin token
ValidAdminHeader(h) ==
    /\ Len(h) >= Len(BearerPrefix) + Len(DemoAdminToken)
    /\ SubSeq(h, 1, Len(BearerPrefix) + Len(DemoAdminToken)) = BearerPrefix \o DemoAdminToken

AdminRoutes == {"POST /admin/whitelist", "DELETE /admin/whitelist"}
AdminHandlers == {"AddToWhitelist", "RemoveFromWhitelist"}

\* C22: an admin handler writes the response only for requests on an admin
\* route whose header is valid and whose context carries the admin role;
\* a request on an admin route with any other header is answered 401 by
\* AuthRequired without a gateway call and without context keys; the
\* response is never written by AdminRequired while AuthRequired let the
\* request pass, and AdminRequired by itself refuses a context without the
\* admin role with 403.
C22_AdminRoutesNeedTheDemoToken ==
    /\ response.handler \in AdminHandlers =>
          /\ request.route \in AdminRoutes
          /\ ValidAdminHeader(request.authorization)
          /\ "user_role" \in DOMAIN request.keys
          /\ request.keys["user_role"] = "admin"
    /\ (request.route \in AdminRoutes /\ ~ValidAdminHeader(request.authorization)) =>
          /\ response.handler = "AuthRequired"
          /\ response.status = StatusUnauthorized
          /\ ~response.called
          /\ request.keys = <<>>
    /\ (request.route \in AdminRoutes /\ ValidAdminHeader(request.authorization)) =>
          response.handler \in AdminHandlers
    /\ response.handler = "AdminRequired" => response.status = StatusForbidden
    /\ \A keys \in {<<>>, [user_role |-> "user"], [user_address |-> "0x"]} :
          /\ AdminRequired(keys).abort
          /\ AdminRequired(keys).status = StatusForbidden

C22_Witness ==
    /\ request.route = "POST /admin/whitelist"
    /\ request.authorization # <<>>
    /\ SubSeq(request.authorization, 1, Len(BearerPrefix)) = BearerPrefix
    /\ Len(request.authorization) > Len(BearerPrefix) + Len(DemoAdminToken)
    /\ ~ValidAdminHeader(request.authorization)
    /\ response.status = StatusUnauthorized
    /\ response.error = "Invalid token"
    /\ last.op = "AddToWhitelist"

\* C25: an admin whitelist handler answers 200 only when the gateway
\* sent the transaction and the receipt it then waited for reported
\* success; when the handler called the gateway and the submission failed,
\* the wait failed or the receipt reported failure, it answers 500.
C25_SuccessOnlyAfterInclusion ==
    response.handler \in AdminHandlers =>
        /\ response.status = StatusOK =>
              /\ response.called
              /\ last.op = response.handler
              /\ last.err = NoErr
              /\ Len(LastRequests("SendTransaction")) = 1
              /\ LastRequests("SendTransaction")[1].resp = "ok"
              /\ Len(LastRequests("TransactionReceipt")) = 1
              /\ LastRequests("TransactionReceipt")[1].resp = "mined_ok"
              /\ LastRequests("TransactionReceipt")[1].hash =
                    LastRequests("SendTransaction")[1].hash
              /\ LastKinds[Len(LastKinds)] = "TransactionReceipt"
        /\ ( /\ response.called
             /\ \E i \in 1..Len(last.requests) :
                   last.requests[i].resp \notin {"ok", "ok_late", "mined_ok"} )
           => response.status = StatusInternalServerError
        /\ response.called => response.status \in {StatusOK, StatusInternalServerError}

C25_Witness ==
    /\ response.handler = "RemoveFromWhitelist"
    /\ response.status = StatusOK
    /\ LastRequests("TransactionReceipt") # <<>>
    /\ LastRequests("TransactionReceipt")[1].resp = "mined_ok"
    /\ txCount = 1

----------------------------------------------------------------------------
(* Properties of whitelist additions in flight at the same time *)

\* the node has included the transaction of operation i
Included(i) == \E r \in chain.receipts : r.hash = i

\* C23: every transaction is signed with exactly the pending nonce the
\* node reported to its operation (the gateway hands out no nonces of its
\* own), and of two operations that were given the same pending nonce at
\* most one has its transaction included.
C23_NoNonceSequencer ==
    /\ \A i \in 1..MaxOps :
          (ops[i].tx # Nil /\ ops[i].pending # Nil)
             => ops[i].tx[1].nonce = ops[i].pending[1]
    /\ \A i, j \in 1..MaxOps :
          (i # j /\ ops[i].pending # Nil /\ ops[i].pending = ops[j].pending)
             => ~(Included(i) /\ Included(j))
    /\ \A r1, r2 \in chain.receipts : r1.nonce = r2.nonce => r1 = r2

C23_Witness ==
    /\ ops[1].pending # Nil
    /\ ops[1].pending = ops[2].pending
    /\ ops[1].pc = "done"
    /\ ops[2].pc = "done"
    /\ Included(1)
    /\ ops[1].status = StatusOK
    /\ ~Included(2)
    /\ ops[2].status = StatusInternalServerError

\* C26: an addition that ended because the wait for inclusion ran into
\* the deadline returns the transaction it sent together with the error
\* and is answered 500, while the node still holds that transaction (in
\* its pool, or included, or replaced by one with the same nonce).
C26_FailedWaitLeavesTransaction ==
    \A i \in 1..MaxOps :
        (ops[i].pc = "done" /\ ops[i].err = <<"deadline">>) =>
            /\ ops[i].status = StatusInternalServerError
            /\ ops[i].tx # Nil
            /\ ops[i].tx[1].hash = i
            /\ \/ ops[i].tx[1] \in chain.pool
               \/ Included(i)
               \/ \E t \in chain.pool : t.nonce = ops[i].tx[1].nonce
               \/ \E r \in chain.receipts : r.nonce = ops[i].tx[1].nonce

\* the failure was answered while the transaction is still pending and is
\* the next one the node can include
C26_Witness ==
    /\ ops[1].pc = "done"
    /\ ops[1].err = <<"deadline">>
    /\ ops[1].status = StatusInternalServerError
    /\ ops[1].tx # Nil
    /\ ops[1].tx[1] \in chain.pool
    /\ ops[1].tx[1].nonce = chain.nonce
    /\ ENABLED NodeInclude

====
